---- MODULE Spec2Model ----
(***************************************************************************)
(* Outbound connections of pipy (src/src/outbound.cpp): the lifecycle of   *)
(* one OutboundTCP or OutboundUDP object driven by the asio event loop.    *)
(*                                                                         *)
(* An asynchronous operation is started by a handler, completes in the     *)
(* reactor (its completion handler is then queued with its result) and its *)
(* handler runs later, as a separate step of the loop.  cancel()/close()   *)
(* turn the operations that have not completed yet into operation_aborted  *)
(* completions; an operation that has already completed keeps its result.  *)
(***************************************************************************)
EXTENDS Integers, Sequences, FiniteSets

\* ---------------------------------------------------------------- bounds
MaxRetryCount == 1      \* largest options.retry_count explored
MaxCloses == 1          \* close() calls made by the pipeline
MaxRecv == 1            \* datagrams or errors delivered to a UDP receive
MaxMessages == 1        \* whole messages passed to OutboundUDP::send
MaxSendEvents == 5      \* single events passed to OutboundUDP::send
MaxPacketSize == 2      \* options.max_packet_size
MaxQueued == 1          \* completed operations whose handlers have not run yet
MaxOthers == 2          \* other connections of the same worker thread
MaxPeers == 1           \* other connections that transfer bytes, <= MaxOthers
MaxBytes == 2           \* bytes the TCP connections of the worker transfer
MaxDatagrams == 2       \* datagrams passed to a UDP connection that retries
\* resolve() calls of one connection that are followed
MaxAttempts == MaxRetryCount + 2

VARIABLES
  protocol,         \* options.protocol
  retry_count,      \* options.retry_count
  retry_delay,      \* options.retry_delay
  connect_timeout,  \* options.connect_timeout
  idle_timeout,     \* options.idle_timeout
  ob,               \* the Outbound object, its pending operations and timers
  s_all_outbounds,  \* Outbound::s_all_outbounds, the worker's registry
  others,           \* the other connections of the worker, by id 1..MaxOthers
  s_metric_concurrency, \* Outbound::s_metric_concurrency, pipy_outbound_count
  s_metric_traffic_in,  \* Outbound::s_metric_traffic_in, pipy_outbound_in
  s_metric_traffic_out  \* Outbound::s_metric_traffic_out, pipy_outbound_out

vars == <<protocol, retry_count, retry_delay, connect_timeout, idle_timeout, ob,
          s_all_outbounds, others, s_metric_concurrency, s_metric_traffic_in,
          s_metric_traffic_out>>
optvars == <<protocol, retry_count, retry_delay, connect_timeout, idle_timeout>>
regvars == <<s_all_outbounds, others>>
metricvars == <<s_metric_concurrency, s_metric_traffic_in, s_metric_traffic_out>>

States == {"idle", "resolving", "connecting", "connected", "closed"}

\* ------------------------------------------------------------ events
Ev(t, e, n) == [t |-> t, e |-> e, n |-> n]
StreamEnd(err) == Ev("StreamEnd", err, 0)
MessageStart == Ev("MessageStart", "", 0)
MessageEnd == Ev("MessageEnd", "", 0)
DataEv(n) == Ev("Data", "", n)

RECURSIVE SumSeq(_)
SumSeq(s) == IF s = <<>> THEN 0 ELSE Head(s) + SumSeq(Tail(s))

\* ------------------------------------------- pending asynchronous operations
\* p: started, not completed; ok/err: completed, handler queued with that
\* result; ab: handler queued with operation_aborted
NoOps == [p |-> 0, ok |-> 0, err |-> 0, ab |-> 0]

cancel(ops) == [ops EXCEPT !.p = 0, !.ab = @ + ops.p]

async_start(ops) == [ops EXCEPT !.p = @ + 1]

\* the datagram socket: close() aborts every operation outstanding on it
cancel_rx(rx) == IF rx.st = "p" THEN [rx EXCEPT !.st = "ab"] ELSE rx

cancel_tx(tx) ==
  [i \in DOMAIN tx |-> IF tx[i].st = "p" THEN [tx[i] EXCEPT !.st = "ab"] ELSE tx[i]]

socket_cancel(c) ==
  [c EXCEPT !.con = cancel(@), !.rx = cancel_rx(@), !.tx = cancel_tx(@)]

socket_close(c) == [socket_cancel(c) EXCEPT !.sock_open = FALSE]

\* ------------------------------------------------------------ Outbound
\* the string "[host]:port", kept as the pair it is made of
Addr(host, port) == <<host, port>>

\* a null pjs::Str* or a null handle of a labelled metric
Null == <<>>

\* the host and port every connect(host, port) of the connection ob is given
Host == "a"
Port == 1

NewOutbound ==
  [ state |-> "idle", retries |-> 0, error |-> "none",
    host |-> "", port |-> 0, address |-> Null, metric |-> Null,
    \* SocketTCP::m_traffic_read, m_traffic_write
    traffic_read |-> 0, traffic_write |-> 0,
    \* references the connection holds on itself for its operations
    refs |-> 0,
    \* what the handlers of the connection have added to its labelled
    \* counters m_metric_traffic_in/out and to the registry-wide counters
    \* s_metric_traffic_in/out, and their observations of the connect time
    metric_traffic_in |-> 0, all_traffic_in |-> 0,
    metric_traffic_out |-> 0, all_traffic_out |-> 0,
    metric_conn_time |-> 0,
    remote_set |-> FALSE, local_set |-> FALSE,
    res |-> NoOps, con |-> NoOps,
    ctimer |-> FALSE, rtimer |-> FALSE, itimer |-> FALSE,
    out |-> <<>>,
    \* OutboundUDP
    connecting |-> FALSE, connected |-> FALSE,
    message_started |-> FALSE, ended |-> FALSE,
    buffer |-> <<>>, pending |-> <<>>, sock_open |-> FALSE,
    rx |-> [st |-> "none", n |-> 0], tx |-> <<>>,
    \* OutboundTCP: the byte pump of SocketTCP is running
    pump_on |-> FALSE,
    \* history
    g_conn |-> FALSE, g_closes |-> 0, g_recv |-> 0, g_sends |-> 0, g_msgs |-> 0,
    g_attempts |-> 0, g_retried |-> 0, g_lasterr |-> "none",
    g_offtable |-> FALSE, g_reopened |-> FALSE,
    g_skipped |-> FALSE, g_dup |-> FALSE,
    g_lastcb |-> "none", g_noidle |-> FALSE,
    g_errsets |-> 0, g_closed_err |-> FALSE, g_late |-> FALSE,
    g_ab_ran |-> FALSE, g_bound |-> FALSE, g_was_connected |-> FALSE,
    \* what the pipeline has passed to send(): a message is open, the Data of
    \* the open message, a StreamEnd was passed
    g_open |-> FALSE, g_group |-> <<>>, g_stream_ended |-> FALSE,
    \* times the idle timer has been scheduled
    g_waits |-> 0,
    \* bytes the socket has read and written in all
    g_read |-> 0, g_written |-> 0,
    \* the datagrams completed by a MessageEnd and the datagrams submitted to
    \* the socket, in the order of these events
    g_completed |-> <<>>, g_submitted |-> <<>> ]

\* the transitions of the state table: (from, to)
Table ==
  { <<"idle", "resolving">>, <<"resolving", "connecting">>,
    <<"resolving", "idle">>, <<"connecting", "connected">>,
    <<"connecting", "idle">> }
  \cup { <<s, "closed">> : s \in States }

\* a write of m_state, with what an observer of the writes records of it
WriteState(c, s, notify) ==
  LET changed == c.state # s
  IN  [c EXCEPT
        !.state = s,
        !.g_offtable = @ \/ (changed /\ <<c.state, s>> \notin Table),
        !.g_reopened = @ \/ (c.state = "closed" /\ s # "closed"),
        !.g_closed_err = @ \/ (s = "closed" /\ c.error # "none"),
        !.g_was_connected = @ \/ s = "connected",
        !.g_skipped = @ \/ (changed /\ ~notify),
        !.g_dup = @ \/ (~changed /\ notify),
        !.g_lastcb = IF notify THEN s ELSE @,
        !.g_noidle = @ \/ (notify /\ s = "resolving" /\ c.g_attempts > 1
                             /\ c.g_lastcb # "idle")]

\* Outbound::state(State): sets m_state and calls on_state_changed
SetStateNotify(c, s) == WriteState(c, s, TRUE)

\* m_state = State::closed, without the callback (OutboundTCP::close)
SetStateDirect(c, s) == WriteState(c, s, FALSE)

\* Outbound::input
input(c, evt) ==
  [c EXCEPT !.out = Append(@, evt),
            !.g_late = @ \/ c.g_closed_err]

\* Outbound::error
error(c, err) ==
  SetStateNotify(
    input([c EXCEPT !.error = err, !.g_errsets = @ + 1], StreamEnd(err)),
    "closed")

\* pjs::RefCount::retain, release, for an asynchronous operation
retain(c) == [c EXCEPT !.refs = @ + 1]
release(c) == [c EXCEPT !.refs = @ - 1]

\* Outbound::protocol_name, of options.protocol p
protocol_name(p) == IF p = "TCP" THEN "TCP" ELSE "UDP"

\* Outbound::address: the label is built at the first call and kept
Outbound_address(c) ==
  IF c.address = Null THEN [c EXCEPT !.address = Addr(c.host, c.port)] ELSE c

\* connect(host, port), its first part: m_host, m_port and the handles of the
\* labelled metrics, keys (protocol_name(), address())
connect_labels(c, p, host, port) ==
  LET c1 == Outbound_address([c EXCEPT !.host = host, !.port = port])
  IN  [c1 EXCEPT !.metric = <<protocol_name(p), c1.address>>]

\* ------------------------------------------------------------ OutboundTCP
\* bind that does not record the local endpoint
TCP_bind_norecord(c) == c

\* OutboundTCP::bind: open and bind the socket, record the local endpoint
TCP_bind(c) == [c EXCEPT !.local_set = TRUE]

\* OutboundTCP::resolve: async_resolve, arm the connect timer, state(resolving)
TCP_resolve(c) ==
  SetStateNotify(
    [c EXCEPT !.res = async_start(@), !.refs = @ + 1,
              !.ctimer = IF connect_timeout > 0 THEN TRUE ELSE @,
              !.g_attempts = @ + 1],
    "resolving")

\* OutboundTCP::start
TCP_start(c, delay) ==
  IF delay > 0
  THEN SetStateNotify([c EXCEPT !.rtimer = TRUE], "idle")
  ELSE TCP_resolve(c)

\* connect_error with the retry limit compared one too far
TCP_connect_error_offbyone(c, err) ==
  IF retry_count >= 0 /\ c.retries > retry_count
  THEN error(c, err)
  ELSE TCP_start(
         SetStateNotify(
           [c EXCEPT !.retries = @ + 1, !.con = cancel(@), !.pump_on = FALSE,
                     !.res = cancel(@), !.g_retried = @ + 1],
           "idle"),
         retry_delay)

\* connect_error that forgets that a negative retry_count means no limit
TCP_connect_error_nolimit(c, err) ==
  IF c.retries >= retry_count
  THEN error(c, err)
  ELSE TCP_start(
         SetStateNotify(
           [c EXCEPT !.retries = @ + 1, !.con = cancel(@), !.pump_on = FALSE,
                     !.res = cancel(@), !.g_retried = @ + 1],
           "idle"),
         retry_delay)

\* OutboundTCP::connect_error
TCP_connect_error(c, err) ==
  IF retry_count >= 0 /\ c.retries >= retry_count
  THEN error(c, err)
  ELSE TCP_start(
         SetStateNotify(
           [c EXCEPT !.retries = @ + 1,
                     !.con = cancel(@),       \* socket().close(ec)
                     !.pump_on = FALSE,       \* a closed socket ends the byte pump
                     !.res = cancel(@),       \* m_resolver.cancel()
                     !.g_retried = @ + 1],
           "idle"),
         retry_delay)

\* OutboundTCP::connect(endpoint): async_connect, state(connecting)
TCP_connect(c) ==
  SetStateNotify([c EXCEPT !.con = async_start(@), !.refs = @ + 1],
                 "connecting")

\* SocketTCP::start, the byte pump takes over the connected socket
SocketTCP_start(c) == [c EXCEPT !.pump_on = TRUE]

\* SocketTCP::close, the byte pump's graceful close
SocketTCP_close(c) == [c EXCEPT !.pump_on = FALSE]

\* completion handler of async_resolve, ec in {"ok", "err", "ab"}
TCP_on_resolve(c, ec) ==
  LET c1 == IF ec # "ok" /\ connect_timeout > 0
            THEN [c EXCEPT !.ctimer = FALSE] ELSE c
  IN  release(
        IF ec = "ab" THEN c1
        ELSE IF ec = "err" THEN TCP_connect_error(c1, "CANNOT_RESOLVE")
        ELSE IF c1.state = "resolving"
             THEN TCP_connect([c1 EXCEPT !.remote_set = TRUE])
             ELSE c1)

\* completion handler of async_connect
TCP_on_connect(c, ec) ==
  LET c1 == IF connect_timeout > 0 THEN [c EXCEPT !.ctimer = FALSE] ELSE c
  IN  release(
        IF ec = "ab" THEN c1
        ELSE IF ec = "err" THEN TCP_connect_error(c1, "CONNECTION_REFUSED")
        ELSE IF c1.state = "connecting"
             THEN SocketTCP_start(
                    SetStateNotify(
                      [c1 EXCEPT !.local_set = TRUE, !.metric_conn_time = @ + 1],
                      "connected"))
             ELSE c1)

\* the connect timer's callback
TCP_on_connect_timer(c) == TCP_connect_error(c, "CONNECTION_TIMEOUT")

\* the retry timer's callback
TCP_on_retry_timer(c) == TCP_resolve(c)

\* OutboundTCP::connect(host, port)
TCP_connect_host(c) == TCP_start(connect_labels(c, protocol, Host, Port), 0)

\* close() that reports the end of the stream to the pipeline
TCP_close_emitting(c) ==
  LET c1 == IF c.state \in {"resolving", "connecting"}
            THEN [c EXCEPT !.res = cancel(@), !.ctimer = FALSE, !.con = cancel(@)]
            ELSE IF c.state = "connected" THEN SocketTCP_close(c)
            ELSE c
  IN  SetStateDirect(input(c1, StreamEnd("NO_ERROR")), "closed")

\* OutboundTCP::close
TCP_close(c) ==
  LET c1 == IF c.state \in {"resolving", "connecting"}
            THEN [c EXCEPT !.res = cancel(@), !.ctimer = FALSE, !.con = cancel(@)]
            ELSE IF c.state = "connected" THEN SocketTCP_close(c)
            ELSE c
  IN  SetStateDirect(c1, "closed")

\* ------------------------------------------------------------ OutboundUDP
\* OutboundUDP::bind: open and bind the socket, record the local endpoint
UDP_bind(c) == [c EXCEPT !.sock_open = TRUE, !.local_set = TRUE]

\* wait that leaves a timer that is already armed as it is
UDP_wait_norestart(c) ==
  IF ~c.sock_open THEN c
  ELSE IF idle_timeout > 0 /\ ~c.itimer
  THEN [c EXCEPT !.itimer = TRUE, !.g_waits = @ + 1]
  ELSE c

\* OutboundUDP::wait: (re)arm the idle timer
UDP_wait(c) ==
  IF ~c.sock_open THEN c
  ELSE IF idle_timeout > 0 THEN [c EXCEPT !.itimer = TRUE, !.g_waits = @ + 1]
  ELSE c

\* OutboundUDP::receive: post one async_receive
UDP_receive(c) ==
  IF ~c.sock_open THEN c
  ELSE [c EXCEPT !.rx = [st |-> "p", n |-> 0], !.refs = @ + 1]

\* OutboundUDP::pump: one async_send per queued datagram, then wait()
UDP_pump(c) ==
  IF ~c.sock_open THEN c
  ELSE IF ~c.connected THEN c
  ELSE UDP_wait(
         [c EXCEPT !.tx = @ \o [i \in DOMAIN c.pending |->
                                 [d |-> c.pending[i], st |-> "p"]],
                   !.refs = @ + Len(c.pending),
                   !.g_submitted = @ \o c.pending,
                   !.pending = <<>>])

\* OutboundUDP::close(StreamEnd::Error)
UDP_close_err(c, err) ==
  IF ~c.connected THEN c
  ELSE LET c1 == [c EXCEPT !.buffer = <<>>, !.pending = <<>>, !.ended = FALSE,
                           !.retries = 0, !.connected = FALSE]
           c2 == IF c1.sock_open THEN socket_close(c1) ELSE c1
       IN  error(c2, err)

\* OutboundUDP::resolve
UDP_resolve(c) ==
  SetStateNotify(
    [c EXCEPT !.res = async_start(@), !.refs = @ + 1,
              !.ctimer = IF connect_timeout > 0 THEN TRUE ELSE @,
              !.g_attempts = @ + 1],
    "resolving")

\* OutboundUDP::start
UDP_start(c, delay) ==
  IF delay > 0
  THEN SetStateNotify([c EXCEPT !.rtimer = TRUE], "idle")
  ELSE UDP_resolve(c)

\* OutboundUDP::restart
UDP_restart(c, err) ==
  IF retry_count >= 0 /\ c.retries >= retry_count
  THEN error([c EXCEPT !.connecting = FALSE], err)
  ELSE UDP_start(
         socket_close([c EXCEPT !.retries = @ + 1, !.g_retried = @ + 1]),
         retry_delay)

\* OutboundUDP::connect(endpoint): async_connect opens the socket when it is
\* not open, state(connecting)
UDP_connect(c) ==
  SetStateNotify([c EXCEPT !.con = async_start(@), !.sock_open = TRUE,
                           !.refs = @ + 1],
                 "connecting")

\* resolve handler that takes operation_aborted for a failed lookup
UDP_on_resolve_noabort(c, ec) ==
  LET c1 == IF ec # "ok" /\ connect_timeout > 0
            THEN [c EXCEPT !.ctimer = FALSE] ELSE c
  IN  release(
        IF ec # "ok" THEN UDP_restart(c1, "CANNOT_RESOLVE")
        ELSE UDP_connect([c1 EXCEPT !.remote_set = TRUE]))

\* completion handler of async_resolve, ec in {"ok", "err", "ab"}
UDP_on_resolve(c, ec) ==
  LET c1 == IF ec # "ok" /\ connect_timeout > 0
            THEN [c EXCEPT !.ctimer = FALSE] ELSE c
  IN  release(
        IF ec = "ab" THEN c1
        ELSE IF ec = "err" THEN UDP_restart(c1, "CANNOT_RESOLVE")
        ELSE UDP_connect([c1 EXCEPT !.remote_set = TRUE]))

\* connect handler that does not read the socket's local endpoint
UDP_on_connect_nolocal(c, ec) ==
  LET c1 == IF connect_timeout > 0 THEN [c EXCEPT !.ctimer = FALSE] ELSE c
  IN  IF ec = "ab" THEN release(c1)
      ELSE IF ec = "err" THEN release(UDP_restart(c1, "CONNECTION_REFUSED"))
      ELSE IF c1.connecting
           THEN IF ~c1.sock_open THEN c1
                ELSE release(UDP_pump(UDP_receive(
                       SetStateNotify(
                         [c1 EXCEPT !.connected = TRUE, !.connecting = FALSE,
                                    !.metric_conn_time = @ + 1],
                         "connected"))))
           ELSE release(UDP_close_err(c1, "CONNECTION_CANCELED"))

\* completion handler of async_connect; m_socket.local_endpoint() throws on a
\* socket that a retry has closed meanwhile, which ends the handler there,
\* before its release()
UDP_on_connect(c, ec) ==
  LET c1 == IF connect_timeout > 0 THEN [c EXCEPT !.ctimer = FALSE] ELSE c
  IN  IF ec = "ab" THEN release(c1)
      ELSE IF ec = "err" THEN release(UDP_restart(c1, "CONNECTION_REFUSED"))
      ELSE IF c1.connecting
           THEN IF ~c1.sock_open THEN c1
                ELSE release(UDP_pump(UDP_receive(
                       SetStateNotify(
                         [c1 EXCEPT !.local_set = TRUE, !.connected = TRUE,
                                    !.connecting = FALSE,
                                    !.metric_conn_time = @ + 1],
                         "connected"))))
           ELSE release(UDP_close_err(c1, "CONNECTION_CANCELED"))

\* the connect timer's callback
UDP_on_connect_timer(c) ==
  UDP_restart(socket_cancel([c EXCEPT !.res = cancel(@)]), "CONNECTION_TIMEOUT")

\* the retry timer's callback
UDP_on_retry_timer(c) == UDP_resolve(c)

\* the idle timer's callback
UDP_on_idle_timer(c) == UDP_close_err(c, "IDLE_TIMEOUT")

\* completion handler of async_receive, ec in {"ok","eof","reset","err","ab"},
\* n the bytes received; the buffer holds max_packet_size bytes until trimmed
UDP_on_receive(c, ec, n) ==
  IF ec = "ab" THEN release(c)
  ELSE LET size == IF c.sock_open THEN n ELSE MaxPacketSize
           c1 == IF n > 0
                 THEN input(input(input(
                        [c EXCEPT !.metric_traffic_in = @ + size,
                                  !.all_traffic_in = @ + size],
                        MessageStart), DataEv(size)), MessageEnd)
                 ELSE c
       IN  release(
             IF ec = "eof" THEN UDP_close_err(c1, "NO_ERROR")
             ELSE IF ec = "reset" THEN UDP_close_err(c1, "CONNECTION_RESET")
             ELSE IF ec = "err" THEN UDP_close_err(c1, "READ_ERROR")
             ELSE UDP_wait(UDP_receive(c1)))

\* completion handler of async_send, n the bytes sent
UDP_on_send(c, ec, n) ==
  IF ec = "ab" THEN release(c)
  ELSE LET c1 == [c EXCEPT !.metric_traffic_out = @ + n,
                           !.all_traffic_out = @ + n]
       IN  release(IF ec = "err" THEN UDP_close_err(c1, "WRITE_ERROR") ELSE c1)

\* OutboundUDP::connect(host, port)
UDP_connect_host(c) ==
  UDP_start(connect_labels([c EXCEPT !.connecting = TRUE], protocol, Host, Port), 0)

\* send that keeps the buffered Data when a message is started again
UDP_send_noclear(c, evt) ==
  IF evt.t = "MessageStart"
  THEN IF ~c.ended
       THEN [c EXCEPT !.message_started = TRUE]
       ELSE c
  ELSE IF evt.t = "Data"
  THEN IF c.message_started
       THEN [c EXCEPT !.buffer = @ \o <<evt.n>>]
       ELSE c
  ELSE IF evt.t = "MessageEnd"
  THEN IF c.message_started
       THEN UDP_pump([c EXCEPT !.pending = Append(@, c.buffer),
                               !.g_completed = Append(@, c.buffer),
                               !.buffer = <<>>,
                               !.message_started = FALSE])
       ELSE c
  ELSE IF ~c.ended
       THEN UDP_pump([c EXCEPT !.ended = TRUE, !.message_started = FALSE])
       ELSE c

\* send that buffers Data whether or not a message is open
UDP_send_nocheck(c, evt) ==
  IF evt.t = "MessageStart"
  THEN IF ~c.ended
       THEN [c EXCEPT !.message_started = TRUE, !.buffer = <<>>]
       ELSE c
  ELSE IF evt.t = "Data"
  THEN [c EXCEPT !.buffer = @ \o <<evt.n>>]
  ELSE IF evt.t = "MessageEnd"
  THEN IF c.message_started
       THEN UDP_pump([c EXCEPT !.pending = Append(@, c.buffer),
                               !.g_completed = Append(@, c.buffer),
                               !.buffer = <<>>,
                               !.message_started = FALSE])
       ELSE c
  ELSE IF ~c.ended
       THEN UDP_pump([c EXCEPT !.ended = TRUE, !.message_started = FALSE])
       ELSE c

\* OutboundUDP::send, evt an event of the pipeline
UDP_send(c, evt) ==
  IF evt.t = "MessageStart"
  THEN IF ~c.ended
       THEN [c EXCEPT !.message_started = TRUE, !.buffer = <<>>]
       ELSE c
  ELSE IF evt.t = "Data"
  THEN IF c.message_started
       THEN [c EXCEPT !.buffer = @ \o <<evt.n>>]
       ELSE c
  ELSE IF evt.t = "MessageEnd"
  THEN IF c.message_started
       THEN UDP_pump([c EXCEPT !.pending = Append(@, c.buffer),
                               !.g_completed = Append(@, c.buffer),
                               !.buffer = <<>>,
                               !.message_started = FALSE])
       ELSE c
  ELSE IF ~c.ended
       THEN UDP_pump([c EXCEPT !.ended = TRUE, !.message_started = FALSE])
       ELSE c

\* OutboundUDP::close()
UDP_close(c) ==
  LET c1 == IF c.connecting
            THEN socket_cancel(
                   [c EXCEPT !.connecting = FALSE, !.ctimer = FALSE,
                             !.rtimer = FALSE, !.res = cancel(@)])
            ELSE IF c.connected THEN [c EXCEPT !.itimer = FALSE]
            ELSE c
  IN  socket_close(
        [c1 EXCEPT !.message_started = FALSE, !.ended = FALSE, !.retries = 0,
                   !.connected = FALSE, !.buffer = <<>>, !.pending = <<>>])

\* SocketTCP reports the end of the stream (peer close or I/O error) to the
\* outbound: the stream-end goes upstream and the connection is closed
SocketTCP_on_end(c, err) ==
  SetStateNotify(input([c EXCEPT !.pump_on = FALSE], StreamEnd(err)), "closed")

\* ------------------------------------------------------------ dispatch
IsTCP == protocol = "TCP"

bind(c) == IF IsTCP THEN TCP_bind(c) ELSE UDP_bind(c)
connect_host(c) == IF IsTCP THEN TCP_connect_host(c) ELSE UDP_connect_host(c)
close(c) == IF IsTCP THEN TCP_close(c) ELSE UDP_close(c)
on_resolve(c, ec) == IF IsTCP THEN TCP_on_resolve(c, ec) ELSE UDP_on_resolve(c, ec)
on_connect(c, ec) == IF IsTCP THEN TCP_on_connect(c, ec) ELSE UDP_on_connect(c, ec)
on_connect_timer(c) == IF IsTCP THEN TCP_on_connect_timer(c) ELSE UDP_on_connect_timer(c)
on_retry_timer(c) == IF IsTCP THEN TCP_on_retry_timer(c) ELSE UDP_on_retry_timer(c)

\* ------------------------------------------------------------ registry
\* the connection ob has id 0; the other connections have ids 1..MaxOthers
OtherIds == 1..MaxOthers

\* List<Outbound>::push: link at the tail
List_push(list, i) == Append(list, i)

\* List<Outbound>::remove: unlink
List_remove(list, i) == SelectSeq(list, LAMBDA x : x # i)

\* Outbound::Outbound, on the registry
Outbound_ctor(list, i) == List_push(list, i)

\* destructor that leaves the object in the registry
Outbound_dtor_noremove(list, i) == list

\* Outbound::~Outbound, on the registry
Outbound_dtor(list, i) == List_remove(list, i)

\* the objects constructed and not destroyed
LiveIds == {0} \cup {i \in OtherIds : others[i].st = "live"}

\* what the model keeps of another connection of the worker
NewOther(st, p) ==
  [st |-> st, protocol |-> p, host |-> "", port |-> 0, address |-> Null,
   metric |-> Null, traffic_read |-> 0, traffic_write |-> 0,
   g_read |-> 0, g_written |-> 0]

\* hosts the other connections connect to, all at port Port
Hosts == {"a", "b"}

\* the connection with id i and its options.protocol
Conn(i) == IF i = 0 THEN ob ELSE others[i]
ProtocolOf(i) == IF i = 0 THEN protocol ELSE others[i].protocol

\* ------------------------------------------------------------ metrics
\* a stats::Metric: its own value and its sub-metrics by label values
NewMetric == [value |-> 0, labels |-> [k \in {} |-> 0]]

\* Metric::with_labels: the sub-metric for the label values k, made on demand
Metric_with_labels(m, k) ==
  [m EXCEPT !.labels = [x \in DOMAIN m.labels \cup {k} |->
                          IF x \in DOMAIN m.labels THEN m.labels[x] ELSE 0]]

\* increase(n) on the sub-metric with_labels(k)
Metric_increase(m, k, n) ==
  [Metric_with_labels(m, k) EXCEPT !.labels[k] = @ + n]

\* Metric::zero_all
Metric_zero_all(m) ==
  [value |-> 0, labels |-> [k \in DOMAIN m.labels |-> 0]]

\* Gauge::set, on the metric itself
Gauge_set(m, n) == [m EXCEPT !.value = n]

\* what an exporter reads for the label values k
Metric_read(m, k) == IF k \in DOMAIN m.labels THEN m.labels[k] ELSE 0

\* the keys (protocol_name(), address()) of the connections of a list, in
\* the order of the list
Keys(list) ==
  [n \in 1..Len(list) |->
     <<protocol_name(ProtocolOf(list[n])),
       Outbound_address(Conn(list[n])).address>>]

\* the loop of the collect callback of pipy_outbound_count
RECURSIVE for_each_count(_, _)
for_each_count(g, keys) ==
  IF keys = <<>> THEN g
  ELSE for_each_count(Metric_increase(g, Head(keys), 1), Tail(keys))

\* collect callback that keeps the values of the previous scrape
collect_count_nozero(g, keys) ==
  Gauge_set(for_each_count(g, keys), Len(keys))

\* the collect callback of pipy_outbound_count
collect_count(g, keys) ==
  Gauge_set(for_each_count(Metric_zero_all(g), keys), Len(keys))

\* the elements of a list
Range(list) == {list[n] : n \in DOMAIN list}

\* Counter::increase, on the metric itself
Counter_increase(m, n) == [m EXCEPT !.value = @ + n]

\* SocketTCP counts the bytes of a completed read or write
SocketTCP_on_read(c, n) == [c EXCEPT !.traffic_read = @ + n, !.g_read = @ + n]
SocketTCP_on_write(c, n) ==
  [c EXCEPT !.traffic_write = @ + n, !.g_written = @ + n]

\* get_traffic_in: the value returned, of a connection with options.protocol p
get_traffic_in(c, p) == IF p = "TCP" THEN c.traffic_read ELSE 0

\* get_traffic_in that leaves the bytes in the socket's counter
reset_traffic_in_keep(c, p) == c

\* get_traffic_in: the connection it leaves
reset_traffic_in(c, p) == IF p = "TCP" THEN [c EXCEPT !.traffic_read = 0] ELSE c

\* get_traffic_out: the value returned and the connection it leaves
get_traffic_out(c, p) == IF p = "TCP" THEN c.traffic_write ELSE 0

reset_traffic_out(c, p) == IF p = "TCP" THEN [c EXCEPT !.traffic_write = 0] ELSE c

\* the loop of the collect callback of pipy_outbound_in
RECURSIVE for_each_in(_, _)
for_each_in(m, list) ==
  IF list = <<>> THEN m
  ELSE LET i == Head(list)
           n == get_traffic_in(Conn(i), ProtocolOf(i))
       IN  for_each_in(
             Counter_increase(Metric_increase(m, Conn(i).metric, n), n),
             Tail(list))

\* the loop of the collect callback of pipy_outbound_out
RECURSIVE for_each_out(_, _)
for_each_out(m, list) ==
  IF list = <<>> THEN m
  ELSE LET i == Head(list)
           n == get_traffic_out(Conn(i), ProtocolOf(i))
       IN  for_each_out(
             Counter_increase(Metric_increase(m, Conn(i).metric, n), n),
             Tail(list))

\* bytes transferred by the TCP connections of the worker so far
Transferred ==
  LET ids == {0} \cup OtherIds
      RECURSIVE Sum(_)
      Sum(S) == IF S = {} THEN 0
                ELSE LET i == CHOOSE x \in S : TRUE
                     IN  Conn(i).g_read + Conn(i).g_written + Sum(S \ {i})
  IN  Sum(ids)

\* ------------------------------------------------------------ actions
\* completions (other than aborts) that wait for their handlers to run
Queued(c) ==
  c.res.ok + c.res.err + c.con.ok + c.con.err
  + (IF c.rx.st \in {"none", "p", "ab"} THEN 0 ELSE 1)
  + Cardinality({i \in DOMAIN c.tx : c.tx[i].st \in {"ok", "err"}})

Step(c) ==
  /\ ob.g_attempts <= MaxAttempts
  /\ ob' = c
  /\ UNCHANGED <<optvars, regvars, metricvars>>

\* a connection is constructed on this worker
Construct ==
  \E i \in OtherIds, p \in {"TCP", "UDP"} :
    /\ others[i].st # "live"
    /\ others' = [others EXCEPT ![i] = NewOther("live", p)]
    /\ s_all_outbounds' = Outbound_ctor(s_all_outbounds, i)
    /\ UNCHANGED <<optvars, ob, metricvars>>

\* a connection of this worker is destroyed
Destroy ==
  \E i \in OtherIds :
    /\ others[i].st = "live"
    /\ others' = [others EXCEPT ![i] = NewOther("destroyed", "none")]
    /\ s_all_outbounds' = Outbound_dtor(s_all_outbounds, i)
    /\ UNCHANGED <<optvars, ob, metricvars>>

\* a connection is constructed and connect(host, port) is called on it in the
\* same turn of the loop
OpenAt(i) ==
  \E p \in {"TCP", "UDP"}, h \in Hosts :
    /\ others[i].st # "live"
    /\ others' = [others EXCEPT
                   ![i] = connect_labels(NewOther("live", p), p, h, Port)]
    /\ s_all_outbounds' = Outbound_ctor(s_all_outbounds, i)
    /\ UNCHANGED <<optvars, ob, metricvars>>

Open == \E i \in OtherIds : OpenAt(i)

\* the same, of the connections that transfer bytes
OpenPeer == \E i \in 1..MaxPeers : OpenAt(i)

\* an exporter scrapes pipy_outbound_count: the collect callback runs
ScrapeCount ==
  /\ s_metric_concurrency' =
       collect_count(s_metric_concurrency, Keys(s_all_outbounds))
  /\ ob' = IF 0 \in Range(s_all_outbounds) THEN Outbound_address(ob) ELSE ob
  /\ others' = [i \in OtherIds |->
                  IF i \in Range(s_all_outbounds)
                  THEN Outbound_address(others[i]) ELSE others[i]]
  /\ UNCHANGED <<optvars, s_all_outbounds, s_metric_traffic_in,
                 s_metric_traffic_out>>

\* every registered connection has the handles that connect(host, port) sets;
\* the collect callbacks of the counters call through them
HandlesSet == \A i \in Range(s_all_outbounds) : Conn(i).metric # Null

\* an exporter scrapes pipy_outbound_in: the collect callback runs
ScrapeIn ==
  /\ HandlesSet
  /\ s_metric_traffic_in' = for_each_in(s_metric_traffic_in, s_all_outbounds)
  /\ ob' = IF 0 \in Range(s_all_outbounds)
           THEN reset_traffic_in(ob, protocol) ELSE ob
  /\ others' = [i \in OtherIds |->
                  IF i \in Range(s_all_outbounds)
                  THEN reset_traffic_in(others[i], others[i].protocol)
                  ELSE others[i]]
  /\ UNCHANGED <<optvars, s_all_outbounds, s_metric_concurrency,
                 s_metric_traffic_out>>

\* an exporter scrapes pipy_outbound_out: the collect callback runs
ScrapeOut ==
  /\ HandlesSet
  /\ s_metric_traffic_out' = for_each_out(s_metric_traffic_out, s_all_outbounds)
  /\ ob' = IF 0 \in Range(s_all_outbounds)
           THEN reset_traffic_out(ob, protocol) ELSE ob
  /\ others' = [i \in OtherIds |->
                  IF i \in Range(s_all_outbounds)
                  THEN reset_traffic_out(others[i], others[i].protocol)
                  ELSE others[i]]
  /\ UNCHANGED <<optvars, s_all_outbounds, s_metric_concurrency,
                 s_metric_traffic_in>>

\* the socket of the connection ob completes a read or a write of n bytes
TcpIo ==
  /\ IsTCP
  /\ ob.pump_on
  /\ \E n \in 1..(MaxBytes - Transferred) :
       \/ Step(SocketTCP_on_read(ob, n))
       \/ Step(SocketTCP_on_write(ob, n))

\* the socket of another TCP connection completes a read or a write
TcpIoOther ==
  \E i \in OtherIds, n \in 1..(MaxBytes - Transferred) :
    /\ others[i].st = "live"
    /\ others[i].protocol = "TCP"
    /\ \/ others' = [others EXCEPT ![i] = SocketTCP_on_read(@, n)]
       \/ others' = [others EXCEPT ![i] = SocketTCP_on_write(@, n)]
    /\ UNCHANGED <<optvars, ob, s_all_outbounds, metricvars>>

\* the pipeline calls bind(ip, port), before connect
Bind ==
  /\ ~ob.g_conn
  /\ ~ob.g_bound
  /\ ob.g_closes = 0
  /\ Step(bind([ob EXCEPT !.g_bound = TRUE]))

\* the pipeline calls connect(host, port), once
Connect ==
  /\ ~ob.g_conn
  /\ ob.g_closes = 0
  /\ Step(connect_host([ob EXCEPT !.g_conn = TRUE]))

\* the pipeline calls close()
Close ==
  /\ ob.g_closes < MaxCloses
  /\ Step(close([ob EXCEPT !.g_closes = @ + 1, !.g_open = FALSE,
                            !.g_group = <<>>]))

\* the pipeline passes an event to OutboundUDP::send
SendEvents ==
  {MessageStart, MessageEnd, StreamEnd("NO_ERROR")} \cup {DataEv(n) : n \in 1..2}

\* what the pipeline has passed to send() so far, evt included
Passed(c, evt) ==
  IF evt.t = "MessageStart"
  THEN [c EXCEPT !.g_sends = @ + 1, !.g_open = TRUE, !.g_group = <<>>]
  ELSE IF evt.t = "Data"
  THEN [c EXCEPT !.g_sends = @ + 1,
                 !.g_group = IF c.g_open THEN Append(@, evt.n) ELSE @]
  ELSE IF evt.t = "MessageEnd"
  THEN [c EXCEPT !.g_sends = @ + 1, !.g_open = FALSE, !.g_group = <<>>]
  ELSE [c EXCEPT !.g_sends = @ + 1, !.g_open = FALSE, !.g_group = <<>>,
                 !.g_stream_ended = TRUE]

SendEv(evt) ==
  /\ ~IsTCP
  /\ ob.g_sends < MaxSendEvents
  /\ Step(UDP_send(Passed(ob, evt), evt))

Send == \E evt \in SendEvents : SendEv(evt)

\* the pipeline passes a whole message, MessageStart Data MessageEnd, to
\* OutboundUDP::send
SendMessage ==
  /\ ~IsTCP
  /\ ob.g_msgs < MaxMessages
  /\ \E d \in 1..2 :
       Step(UDP_send(UDP_send(UDP_send([ob EXCEPT !.g_msgs = @ + 1],
                                       MessageStart), DataEv(d)), MessageEnd))

\* the pipeline passes a datagram, MessageStart Data MessageEnd, to
\* OutboundUDP::send of a connection that may still be connecting
SendDatagram ==
  /\ ~IsTCP
  /\ Len(ob.g_completed) < MaxDatagrams
  /\ \E d \in 1..2 :
       Step(UDP_send(UDP_send(UDP_send(ob, MessageStart), DataEv(d)), MessageEnd))

\* the resolver finishes a lookup; its handler is queued
ResolveDoneR(r) ==
  /\ ob.res.p > 0
  /\ Queued(ob) < MaxQueued
  /\ Step([ob EXCEPT !.res.p = @ - 1, !.res[r] = @ + 1])

ResolveDone == \E r \in {"ok", "err"} : ResolveDoneR(r)

\* the loop runs a queued resolve handler
RunResolveEc(ec) ==
  /\ ob.res[ec] > 0
  /\ Step(on_resolve([ob EXCEPT !.res[ec] = @ - 1,
                                !.g_ab_ran = @ \/ ec = "ab",
                                !.g_lasterr = IF ec = "err" THEN "CANNOT_RESOLVE" ELSE @],
                     ec))

RunResolve == \E ec \in {"ok", "err", "ab"} : RunResolveEc(ec)

\* the socket finishes a connect; its handler is queued
ConnectDoneR(r) ==
  /\ ob.con.p > 0
  /\ Queued(ob) < MaxQueued
  /\ Step([ob EXCEPT !.con.p = @ - 1, !.con[r] = @ + 1])

ConnectDone == \E r \in {"ok", "err"} : ConnectDoneR(r)

\* the loop runs a queued connect handler
RunConnectEc(ec) ==
  /\ ob.con[ec] > 0
  /\ Step(on_connect([ob EXCEPT !.con[ec] = @ - 1,
                                !.g_ab_ran = @ \/ ec = "ab",
                                !.g_lasterr = IF ec = "err" THEN "CONNECTION_REFUSED" ELSE @],
                     ec))

RunConnect == \E ec \in {"ok", "err", "ab"} : RunConnectEc(ec)

\* the connect timer expires
ConnectTimerFire ==
  /\ ob.ctimer
  /\ Step(on_connect_timer([ob EXCEPT !.ctimer = FALSE,
                                      !.g_lasterr = "CONNECTION_TIMEOUT"]))

\* the retry timer expires
RetryTimerFire ==
  /\ ob.rtimer
  /\ Step(on_retry_timer([ob EXCEPT !.rtimer = FALSE]))

\* the idle timer expires
IdleTimerFire ==
  /\ ob.itimer
  /\ Step(UDP_on_idle_timer([ob EXCEPT !.itimer = FALSE]))

\* a datagram or an error arrives for the pending receive
RecvDone ==
  /\ ob.rx.st = "p"
  /\ ob.g_recv < MaxRecv
  /\ Queued(ob) < MaxQueued
  /\ \/ \E n \in 0..MaxPacketSize :
          Step([ob EXCEPT !.rx = [st |-> "ok", n |-> n], !.g_recv = @ + 1])
     \/ \E e \in {"eof", "reset", "err"} :
          Step([ob EXCEPT !.rx = [st |-> e, n |-> 0], !.g_recv = @ + 1])

\* the loop runs the queued receive handler
RunRecv ==
  /\ ob.rx.st \notin {"none", "p"}
  /\ Step(UDP_on_receive([ob EXCEPT !.rx = [st |-> "none", n |-> 0]],
                         ob.rx.st, ob.rx.n))

\* the oldest outstanding send finishes; its handler is queued
FirstPending(tx) == CHOOSE i \in DOMAIN tx : tx[i].st = "p" /\ \A j \in 1..(i-1) : tx[j].st # "p"

SendDone ==
  /\ \E i \in DOMAIN ob.tx : ob.tx[i].st = "p"
  /\ Queued(ob) < MaxQueued
  /\ \E r \in {"ok", "err"} :
       Step([ob EXCEPT !.tx[FirstPending(ob.tx)].st = r])

\* the loop runs the queued send handler, in submission order
RunSend ==
  /\ ob.tx # <<>>
  /\ ob.tx[1].st # "p"
  /\ Step(UDP_on_send([ob EXCEPT !.tx = Tail(@)], ob.tx[1].st,
                      IF ob.tx[1].st = "ok" THEN SumSeq(ob.tx[1].d) ELSE 0))

\* the byte pump of a connected TCP socket ends the stream
PumpEnd ==
  /\ IsTCP
  /\ ob.pump_on
  /\ \E err \in {"NO_ERROR", "READ_ERROR", "WRITE_ERROR", "CONNECTION_RESET"} :
       Step(SocketTCP_on_end(ob, err))

Options ==
  /\ protocol \in {"TCP", "UDP"}
  /\ retry_count \in 0..MaxRetryCount
  /\ retry_delay \in {0, 1}
  /\ connect_timeout \in {0, 1}
  /\ idle_timeout \in (IF IsTCP THEN {0} ELSE {0, 1})

\* the registry holds the connection ob, constructed first
InitRegistry ==
  /\ s_all_outbounds = Outbound_ctor(<<>>, 0)
  /\ others = [i \in OtherIds |-> NewOther("unborn", "none")]

\* the metrics as Outbound::init_metrics makes them
InitMetrics ==
  /\ s_metric_concurrency = NewMetric
  /\ s_metric_traffic_in = NewMetric
  /\ s_metric_traffic_out = NewMetric

Init ==
  /\ Options
  /\ ob = NewOutbound
  /\ InitRegistry
  /\ InitMetrics

Next ==
  \/ Bind
  \/ Connect
  \/ Close
  \/ SendMessage
  \/ ResolveDone
  \/ RunResolve
  \/ ConnectDone
  \/ RunConnect
  \/ ConnectTimerFire
  \/ RetryTimerFire
  \/ IdleTimerFire
  \/ RecvDone
  \/ RunRecv
  \/ SendDone
  \/ RunSend
  \/ PumpEnd

Spec == Init /\ [][Next]_vars

\* Persistent failure: every attempt ends with a failed resolve or a failed
\* connect, the pipeline does not close the connection.
NextFail ==
  \/ Connect
  \/ ResolveDone
  \/ RunResolve
  \/ ConnectDoneR("err")
  \/ RunConnect
  \/ RetryTimerFire

SpecFail == Init /\ [][NextFail]_vars /\ WF_vars(NextFail)

\* A black hole: lookups may succeed, no connect ever completes on its own.
\* Armed timers fire and queued handlers run.
NextLive ==
  \/ Connect
  \/ ResolveDoneR("ok")
  \/ RunResolve
  \/ RunConnect
  \/ ConnectTimerFire
  \/ RetryTimerFire

SpecLive ==
  /\ Init
  /\ [][NextLive]_vars
  /\ WF_vars(Connect)
  /\ WF_vars(RunResolve)
  /\ WF_vars(RunConnect)
  /\ WF_vars(ConnectTimerFire)
  /\ WF_vars(RetryTimerFire)

\* Establishing the connection: bind, connect, the lookups and connects of
\* the attempts, the connect and retry timers, and close() at any time.
NextConnect ==
  \/ Bind
  \/ Connect
  \/ Close
  \/ ResolveDone
  \/ RunResolve
  \/ ConnectDone
  \/ RunConnect
  \/ ConnectTimerFire
  \/ RetryTimerFire

SpecConnect == Init /\ [][NextConnect]_vars

\* Connections of the worker come and go.
NextRegistry ==
  \/ Construct
  \/ Destroy

SpecRegistry == Init /\ [][NextRegistry]_vars

\* Connections of the worker come, are connected and go while an exporter
\* scrapes the gauge.
NextGauge ==
  \/ Open
  \/ Destroy
  \/ Connect
  \/ ScrapeCount

InitGauge ==
  /\ protocol \in {"TCP", "UDP"}
  /\ retry_count = 0
  /\ retry_delay = 0
  /\ connect_timeout = 0
  /\ idle_timeout = 0
  /\ ob = NewOutbound
  /\ InitRegistry
  /\ InitMetrics

SpecGauge == InitGauge /\ [][NextGauge]_vars

\* TCP connections of the worker are opened, read and write while an exporter
\* scrapes the two byte counters.
InitTraffic ==
  /\ protocol = "TCP"
  /\ retry_count = 0
  /\ retry_delay = 0
  /\ connect_timeout = 0
  /\ idle_timeout = 0
  /\ ob = NewOutbound
  /\ InitRegistry
  /\ InitMetrics

NextTraffic ==
  \/ OpenPeer
  \/ Connect
  \/ ResolveDoneR("ok")
  \/ RunResolveEc("ok")
  \/ ConnectDoneR("ok")
  \/ RunConnectEc("ok")
  \/ TcpIo
  \/ TcpIoOther
  \/ ScrapeIn
  \/ ScrapeOut

SpecTraffic == InitTraffic /\ [][NextTraffic]_vars

\* A UDP connection that is established at the first attempt and is passed
\* single events; datagrams and errors arrive, the idle timer fires, the
\* pipeline closes at any time.
InitSend ==
  /\ protocol = "UDP"
  /\ retry_count = 0
  /\ retry_delay = 0
  /\ connect_timeout = 0
  /\ idle_timeout \in {0, 1}
  /\ ob = NewOutbound
  /\ InitRegistry
  /\ InitMetrics

NextSend ==
  \/ Connect
  \/ Close
  \/ Send
  \/ ResolveDoneR("ok")
  \/ RunResolve
  \/ ConnectDoneR("ok")
  \/ RunConnect
  \/ IdleTimerFire
  \/ RecvDone
  \/ RunRecv
  \/ SendDone
  \/ RunSend

SpecSend == InitSend /\ [][NextSend]_vars

\* A UDP connection that retries is passed datagrams before and after it is
\* connected; the pipeline does not close it.
InitPending ==
  /\ protocol = "UDP"
  /\ retry_count \in {-1, MaxRetryCount}
  /\ retry_delay \in {0, 1}
  /\ connect_timeout \in {0, 1}
  /\ idle_timeout = 0
  /\ ob = NewOutbound
  /\ InitRegistry
  /\ InitMetrics

NextPending ==
  \/ Connect
  \/ SendDatagram
  \/ ResolveDone
  \/ RunResolve
  \/ ConnectDone
  \/ RunConnect
  \/ ConnectTimerFire
  \/ RetryTimerFire
  \/ SendDone
  \/ RunSend

SpecPending == InitPending /\ [][NextPending]_vars

\* retry_count = -1: retry without limit.  The pipeline may close the
\* connection at any time.
InitForever ==
  /\ protocol \in {"TCP", "UDP"}
  /\ retry_count = -1
  /\ retry_delay \in {0, 1}
  /\ connect_timeout \in {0, 1}
  /\ idle_timeout = 0
  /\ ob = NewOutbound
  /\ InitRegistry
  /\ InitMetrics

NextForever ==
  \/ Connect
  \/ Close
  \/ ResolveDone
  \/ RunResolve
  \/ ConnectDone
  \/ RunConnect
  \/ ConnectTimerFire
  \/ RetryTimerFire

SpecForever == InitForever /\ [][NextForever]_vars

\* ------------------------------------------------------------ properties
NumStreamEnd(out) == Cardinality({i \in DOMAIN out : out[i].t = "StreamEnd"})

\* a queued handler runs with operation_aborted
RunAborted ==
  \/ RunResolveEc("ab")
  \/ RunConnectEc("ab")
  \/ (RunRecv /\ ob.rx.st = "ab")
  \/ (RunSend /\ ob.tx[1].st = "ab")

\* C1: every change of state is a transition of the state table, and closed
\* is never left
C1_TablePathClosedTerminal == ~ob.g_offtable /\ ~ob.g_reopened

\* C2: under persistent resolve/connect failure with retry_count = k the
\* connection ends closed after exactly k+1 attempts, with exactly one
\* StreamEnd that carries the error of the last attempt, and retries = k
C2_Final ==
  /\ ob.state = "closed"
  /\ ob.g_attempts = retry_count + 1
  /\ NumStreamEnd(ob.out) = 1
  /\ Len(ob.out) = 1
  /\ ob.out[1] = StreamEnd(ob.g_lasterr)
  /\ ob.error = ob.g_lasterr
  /\ ob.retries = retry_count

C2_RetryThenTerminate == <>[]C2_Final

C2_Witness ==
  C2_Final /\ retry_count = MaxRetryCount /\ ob.g_lasterr = "CONNECTION_REFUSED"

\* C3: at most retry_count retries are started over the connection's lifetime
C3_RetriesBounded == ob.g_retried <= retry_count

\* C4: error is set at most once, at most one StreamEnd is emitted, and no
\* event is emitted once the connection is closed with an error
C4_ErrorOnce ==
  /\ ob.g_errsets <= 1
  /\ NumStreamEnd(ob.out) <= 1
  /\ ~ob.g_late

\* C5: close() leaves the state closed, whatever the state it is called in
C5_CloseLeavesClosed == [][Close => ob'.state = "closed"]_vars

\* C6: close() twice in a row leaves the connection exactly as close() once
C6_CloseIdempotent == close(close(ob)) = close(ob)

C6_Witness ==
  /\ ob.g_closes > 0
  /\ ob.g_attempts > 0
  /\ ob.res.ab + ob.con.ab > 0

\* C7: neither close() nor a handler that runs with operation_aborted emits
\* an event on the upstream input
C7_CloseSilent == [][(Close \/ RunAborted) => ob'.out = ob.out]_vars

C7_Witness ==
  /\ ob.g_closes > 0
  /\ ob.g_ab_ran
  /\ ob.g_attempts = 1
  /\ ob.error = "none"
  /\ ob.res.ab + ob.con.ab = 0

\* C8: on_state_changed runs exactly once for every change of state
C8_CallbackPerTransition == ~ob.g_skipped /\ ~ob.g_dup

\* C9: on every retry the callback observes idle before the next resolving
C9_IdleBetweenRetries == ~ob.g_noidle

\* C10: with a connect timeout, a connection on which connect() was called
\* eventually is connected or closed
C10_ConnectEnds ==
  (ob.g_conn /\ connect_timeout > 0) ~> (ob.state \in {"connected", "closed"})

\* a resolve failure, a connect failure or a connect timeout is handled
FailureStep == RunResolveEc("err") \/ RunConnectEc("err") \/ ConnectTimerFire

\* C11: with retry_count = -1 a resolve failure, a connect failure or a
\* connect timeout emits nothing and does not close: it increments retries and
\* starts another attempt (at once, or by arming the retry timer)
C11_RetryForever ==
  [][(retry_count = -1 /\ FailureStep) =>
       /\ ob'.out = ob.out
       /\ ob'.error = ob.error
       /\ ob'.state \in {"idle", "resolving"}
       /\ ob'.retries = ob.retries + 1
       /\ IF retry_delay > 0 THEN ob'.rtimer
                             ELSE ob'.g_attempts = ob.g_attempts + 1]_vars

C11_Witness ==
  /\ retry_count = -1
  /\ ob.retries >= 2
  /\ ob.g_lasterr = "CONNECTION_TIMEOUT"
  /\ ob.out = <<>>
  /\ ob.state = "resolving"
\* C12: a connected connection has its remote and its local address
C12_ConnectedHasAddresses ==
  ob.state = "connected" => (ob.remote_set /\ ob.local_set)

C12_Witness ==
  /\ ob.state = "connected"
  /\ ~ob.g_bound
  /\ ob.retries > 0
  /\ ob.remote_set /\ ob.local_set

\* C13 as stated: the local address is there exactly when the connection has
\* reached connected
C13_LocalIffConnected == ob.local_set <=> ob.g_was_connected

\* C13 amended: the local address is there exactly when bind() was called or
\* the connection has reached connected
C13_LocalIffBoundOrConnected ==
  ob.local_set <=> (ob.g_bound \/ ob.g_was_connected)

C13_Witness ==
  /\ ob.g_bound
  /\ ob.g_attempts > 1
  /\ ob.state = "closed"
  /\ ~ob.g_was_connected
  /\ ob.local_set
\* a UDP read error, reset, write error or idle timeout is handled on a
\* connected connection; what it reports
UDPErrorStep(kind) ==
  /\ ~IsTCP
  /\ ob.connected
  /\ \/ (RunRecv /\ ob.rx.st = "err" /\ kind = "READ_ERROR")
     \/ (RunRecv /\ ob.rx.st = "reset" /\ kind = "CONNECTION_RESET")
     \/ (RunSend /\ ob.tx[1].st = "err" /\ kind = "WRITE_ERROR")
     \/ (IdleTimerFire /\ kind = "IDLE_TIMEOUT")

UDPErrorKinds == {"READ_ERROR", "CONNECTION_RESET", "WRITE_ERROR", "IDLE_TIMEOUT"}

\* C14: once connected, the state is never again idle, resolving or
\* connecting and retries is not incremented; a UDP read error, reset, write
\* error or idle timeout emits its StreamEnd and closes in the same callback
C14_TerminalAfterConnected ==
  [][/\ ob.g_was_connected =>
          /\ ob'.state \in {"connected", "closed"}
          /\ ob'.retries <= ob.retries
     /\ \A kind \in UDPErrorKinds :
          UDPErrorStep(kind) =>
            /\ ob'.state = "closed"
            /\ ob'.out # <<>>
            /\ ob'.out[Len(ob'.out)] = StreamEnd(kind)]_vars
\* C15: the registry holds exactly the connections constructed and not
\* destroyed, each once
C15_RegistryIsLive ==
  /\ {s_all_outbounds[k] : k \in DOMAIN s_all_outbounds} = LiveIds
  /\ Len(s_all_outbounds) = Cardinality(LiveIds)

C15_Witness ==
  /\ \E i \in OtherIds : others[i].st = "destroyed"
  /\ \E i \in OtherIds : others[i].st = "live"
  /\ Len(s_all_outbounds) = 2
\* the connection is established and the pipeline has not ended the stream
Established == ob.state = "connected" /\ ob.connected /\ ~ob.g_stream_ended

\* C16: on an established UDP connection the MessageEnd of an open message
\* submits exactly one datagram, the Data passed since the last MessageStart
\* (none: a zero-length datagram), and no other event of the message submits
\* a datagram
C16_OneDatagramPerMessage ==
  [][/\ (SendEv(MessageEnd) /\ Established /\ ob.g_open) =>
          /\ ob'.tx = Append(ob.tx, [d |-> ob.g_group, st |-> "p"])
          /\ ob'.pending = <<>>
     /\ \A evt \in SendEvents \ {MessageEnd, StreamEnd("NO_ERROR")} :
          (SendEv(evt) /\ Established) => ob'.tx = ob.tx /\ ob'.pending = ob.pending
    ]_vars

\* a zero-length datagram and a datagram of a message restarted after Data
C16_Witness ==
  /\ ob.state = "connected"
  /\ Len(ob.tx) = 2
  /\ ob.tx[1].d = <<>>
  /\ ob.tx[2].d = <<2>>
  /\ ob.g_sends = 5
\* C17: a Data or a MessageEnd passed while no message is open changes
\* neither buffer nor pending_buffer and submits no datagram
C17_NoOpenMessageNoEffect ==
  [][\A evt \in SendEvents :
       (evt.t \in {"Data", "MessageEnd"} /\ SendEv(evt) /\ ~ob.g_open) =>
         /\ ob'.buffer = ob.buffer
         /\ ob'.pending = ob.pending
         /\ ob'.tx = ob.tx]_vars

\* a Data and a MessageEnd were passed after the message had been ended
C17_Witness ==
  /\ ob.state = "connected"
  /\ ob.connected
  /\ ~ob.g_open
  /\ ~ob.g_stream_ended
  /\ ob.g_sends = 5
  /\ Len(ob.tx) = 1
  /\ ob.buffer = <<>>

\* C18: once a StreamEnd has been passed to send(), no later event passed to
\* send() queues a datagram in pending_buffer or submits one (here on a
\* connection the pipeline has not called close() on)
C18_NothingAfterStreamEnd ==
  [][\A evt \in SendEvents :
       (SendEv(evt) /\ ob.g_stream_ended /\ ob.g_closes = 0) =>
         /\ ob'.pending = ob.pending
         /\ ob'.tx = ob.tx]_vars

\* C19: on a connected UDP connection the handler of a successful receive of
\* n >= 0 bytes emits MessageStart, Data of n bytes, MessageEnd, in this order
\* and nothing else, and posts the next receive
C19_OneTriplePerDatagram ==
  [][(RunRecv /\ ob.rx.st = "ok" /\ ob.state = "connected" /\ ob.connected) =>
       /\ ob'.out = ob.out \o <<MessageStart, DataEv(ob.rx.n), MessageEnd>>
       /\ ob'.rx.st = "p"]_vars
\* the UDP connection is connected and has an idle timeout
IdleWatched ==
  /\ ~IsTCP
  /\ idle_timeout > 0
  /\ ob.state = "connected"
  /\ ob.connected

\* send() runs the pump for this event
PumpedSend(evt) ==
  /\ SendEv(evt)
  /\ \/ evt.t = "MessageEnd" /\ ob.message_started
     \/ evt.t = "StreamEnd" /\ ~ob.ended

\* C20: with idle_timeout > 0 the idle timer of a connected UDP connection is
\* armed; the handler of a successful receive and every run of the send pump
\* schedule it anew; when it fires the connection emits
\* StreamEnd(IDLE_TIMEOUT) and is closed
C20_IdleTimer ==
  [][/\ IdleWatched' => ob'.itimer
     /\ (IdleWatched /\ RunRecv /\ ob.rx.st = "ok") =>
          ob'.itimer /\ ob'.g_waits = ob.g_waits + 1
     /\ \A evt \in SendEvents :
          (IdleWatched /\ PumpedSend(evt)) =>
            ob'.itimer /\ ob'.g_waits = ob.g_waits + 1
     /\ (IdleWatched /\ IdleTimerFire) =>
          /\ ob'.out = Append(ob.out, StreamEnd("IDLE_TIMEOUT"))
          /\ ob'.state = "closed"
          /\ ob'.error = "IDLE_TIMEOUT"]_vars

\* the idle timer fired after a datagram was received and one was sent
C20_Witness ==
  /\ ob.state = "closed"
  /\ ob.error = "IDLE_TIMEOUT"
  /\ ob.g_waits >= 3
  /\ ob.g_recv = 1
  /\ Len(ob.out) = 4

\* the label values a connection of the model can have
AllKeys ==
  {<<p, a>> : p \in {"TCP", "UDP"},
              a \in {Addr("", 0)} \cup {Addr(h, Port) : h \in Hosts}}

\* what address() returns for the connection i
AddressOf(i) == Outbound_address(Conn(i)).address

\* the registered connections with the label values k
Labelled(k) ==
  {i \in Range(s_all_outbounds) :
     protocol_name(ProtocolOf(i)) = k[1] /\ AddressOf(i) = k[2]}

GaugeAgrees ==
  /\ \A k \in AllKeys :
       Metric_read(s_metric_concurrency, k) = Cardinality(Labelled(k))
  /\ s_metric_concurrency.value = Len(s_all_outbounds)

\* C21: after a scrape of pipy_outbound_count the value of every (protocol,
\* peer) pair is the number of registered connections with that
\* protocol_name and address, 0 for the pairs of no connection, and the
\* gauge's own value is the size of the registry.
C21_GaugeCountsRegistry == [][ScrapeCount => GaugeAgrees']_vars

\* scraped: two connections share a pair, and a pair that was counted by an
\* earlier scrape has no connection any more
C21_Witness ==
  /\ GaugeAgrees
  /\ \E k \in AllKeys : Metric_read(s_metric_concurrency, k) = 2
  /\ \E k \in DOMAIN s_metric_concurrency.labels :
       s_metric_concurrency.labels[k] = 0

\* the connections of the registry whose labelled counters are those of k
WithHandle(k) == SelectSeq(s_all_outbounds, LAMBDA i : Conn(i).metric = k)

\* bytes read and written in all, and bytes not scraped yet, of the
\* connections of a list
ReadOf(list) == [n \in DOMAIN list |-> Conn(list[n]).g_read]
WrittenOf(list) == [n \in DOMAIN list |-> Conn(list[n]).g_written]
UnscrapedIn(list) == [n \in DOMAIN list |-> Conn(list[n]).traffic_read]
UnscrapedOut(list) == [n \in DOMAIN list |-> Conn(list[n]).traffic_write]

\* the counters hold every byte of the registered connections, once
InAccounted ==
  /\ s_metric_traffic_in.value = SumSeq(ReadOf(s_all_outbounds))
  /\ \A k \in AllKeys :
       Metric_read(s_metric_traffic_in, k) = SumSeq(ReadOf(WithHandle(k)))
  /\ \A i \in Range(s_all_outbounds) : Conn(i).traffic_read = 0

OutAccounted ==
  /\ s_metric_traffic_out.value = SumSeq(WrittenOf(s_all_outbounds))
  /\ \A k \in AllKeys :
       Metric_read(s_metric_traffic_out, k) = SumSeq(WrittenOf(WithHandle(k)))
  /\ \A i \in Range(s_all_outbounds) : Conn(i).traffic_write = 0

\* a scrape adds the bytes accumulated since the previous scrape
InAdded ==
  /\ s_metric_traffic_in'.value =
       s_metric_traffic_in.value + SumSeq(UnscrapedIn(s_all_outbounds))
  /\ \A k \in AllKeys :
       Metric_read(s_metric_traffic_in', k) =
         Metric_read(s_metric_traffic_in, k) + SumSeq(UnscrapedIn(WithHandle(k)))

OutAdded ==
  /\ s_metric_traffic_out'.value =
       s_metric_traffic_out.value + SumSeq(UnscrapedOut(s_all_outbounds))
  /\ \A k \in AllKeys :
       Metric_read(s_metric_traffic_out', k) =
         Metric_read(s_metric_traffic_out, k) + SumSeq(UnscrapedOut(WithHandle(k)))

\* C22: a scrape of pipy_outbound_in or pipy_outbound_out adds to the
\* labelled counter of each connection and to the registry-wide counter the
\* bytes that connection accumulated since the previous scrape and resets its
\* traffic_read or traffic_write to 0; after the scrape the counters equal
\* the bytes transferred in all by the registered connections.
C22_ScrapeDrainsOnce ==
  [][/\ ScrapeIn => (InAdded /\ InAccounted')
     /\ ScrapeOut => (OutAdded /\ OutAccounted')]_vars

\* both counters scraped: of two connections with the same labels one has
\* read a byte and the other has written a byte
C22_Witness ==
  /\ InAccounted
  /\ OutAccounted
  /\ \E k \in AllKeys :
       /\ Len(WithHandle(k)) = 2
       /\ Metric_read(s_metric_traffic_in, k) = 1
       /\ Metric_read(s_metric_traffic_out, k) = 1
       /\ \A n \in 1..2 :
            Conn(WithHandle(k)[n]).g_read + Conn(WithHandle(k)[n]).g_written = 1

\* C23: with connect_timeout > 0 the connect timer is armed on every entry
\* to resolving; once armed it is disarmed only by the attempt's own failed
\* resolve or completed connect, by its expiry or by close(), never by the
\* aborted handler of an attempt that is over; it is armed in resolving and
\* connecting only.
C23_ConnectTimerPerAttempt ==
  [][connect_timeout > 0 =>
       /\ (ob.state # "resolving" /\ ob'.state = "resolving") => ob'.ctimer
       /\ (ob.ctimer /\ ~ob'.ctimer) => ~RunAborted
       /\ ob'.ctimer => ob'.state \in {"resolving", "connecting"}]_vars

\* C24: a completion handler that runs with operation_aborted changes nothing
\* of the connection, state, retries, timers, buffers, flags, events passed
\* upstream and metrics included, but for the handler being consumed and the
\* reference of the operation being released.
C24_AbortedIsNoOp ==
  [][/\ RunResolveEc("ab") =>
          ob' = [ob EXCEPT !.res.ab = @ - 1, !.refs = @ - 1, !.g_ab_ran = TRUE]
     /\ RunConnectEc("ab") =>
          ob' = [ob EXCEPT !.con.ab = @ - 1, !.refs = @ - 1, !.g_ab_ran = TRUE]
     /\ (RunRecv /\ ob.rx.st = "ab") =>
          ob' = [ob EXCEPT !.rx = [st |-> "none", n |-> 0], !.refs = @ - 1]
     /\ (RunSend /\ ob.tx[1].st = "ab") =>
          ob' = [ob EXCEPT !.tx = Tail(@), !.refs = @ - 1]]_vars

\* C25: when close() returns, none of the connect, retry and idle timers of
\* the connection is armed.
C25_CloseDisarmsTimers ==
  [][Close => (~ob'.ctimer /\ ~ob'.rtimer /\ ~ob'.itimer)]_vars

\* operations started whose completion handlers have not run yet
Outstanding(c) ==
  c.res.p + c.res.ok + c.res.err + c.res.ab
  + c.con.p + c.con.ok + c.con.err + c.con.ab
  + (IF c.rx.st = "none" THEN 0 ELSE 1)
  + Len(c.tx)

\* C26: the references the connection holds on itself for asynchronous work
\* are as many as its resolve, connect, receive and send operations whose
\* handlers have not run yet.
C26_RefsAreOutstandingOps == ob.refs = Outstanding(ob)

\* C27: the handler of a UDP receive that completed with n > 0 bytes passes
\* upstream a Data event of exactly n bytes and adds exactly n to the
\* connection's inbound counter and to the registry-wide inbound counter,
\* whether or not the socket was closed before the handler ran.
C27_ReceivedSizeIsN ==
  [][(RunRecv /\ ob.rx.st # "ab" /\ ob.rx.n > 0) =>
       /\ Len(ob'.out) >= Len(ob.out) + 3
       /\ ob'.out[Len(ob.out) + 2] = DataEv(ob.rx.n)
       /\ ob'.metric_traffic_in = ob.metric_traffic_in + ob.rx.n
       /\ ob'.all_traffic_in = ob.all_traffic_in + ob.rx.n]_vars

\* C28: the datagrams of a UDP connection are submitted to the socket in the
\* order their MessageEnd arrived, each once, and those not submitted yet
\* wait in pending_buffer, across retries; when the connection becomes
\* connected all of them are submitted.
C28_PendingKeptInOrder ==
  [][/\ ob'.g_submitted \o ob'.pending = ob'.g_completed
     /\ (ob.state # "connected" /\ ob'.state = "connected") => ob'.pending = <<>>]_vars

====
